---- MODULE Spec2Model ----
(***************************************************************************)
(* Query-and-verify orchestration of the SxT Proof of SQL SDK.             *)
(*                                                                         *)
(* Four workflow entry points are modelled, one per source file:           *)
(*   "chainlink"  SxTClient.queryAndVerify(queryString, table,             *)
(*                commitmentKey), chainlink-functions/source/index.js      *)
(*   "dory"       SxTClient.queryAndVerify(queryString, table, blockHash), *)
(*                the dory variant that derives the storage key itself     *)
(*   "hyperkzg"   SxTClient.queryAndVerify(queryString, blockHash), the    *)
(*                asynchronous job flow with the polling loop              *)
(*   "ts"         proofOfSqlQuery(query, apiKey), ts-proof-of-sql-sdk      *)
(*                                                                         *)
(* Every invocation p has its own program counter, arguments and locals.   *)
(* An await on a network request is two steps: the request is issued (and  *)
(* logged) by one action and settled by the next, where the backend's      *)
(* answer is chosen: a success status, a non-success status, or a          *)
(* rejected fetch.  The planner/verifier (wasm) is an opaque collaborator: *)
(* its outputs are chosen from small sets and it may throw.                *)
(*                                                                         *)
(* The dory variant's file calls this.#getCommitment and this.#getProof    *)
(* without defining them; they are taken to be the chainlink file's        *)
(* methods of the same names, on the variant's own postHttpRequest (which  *)
(* arms no abort timer).                                                   *)
(***************************************************************************)
EXTENDS Integers, Sequences, FiniteSets, TLC

\* ---------------------------------------------------------------- bounds
\* longest hex payload (in characters) of a state_getStorage result
MaxHexLen == 2

\* live objects the wasm side holds through its imports, outside the
\* arguments and results of a wrapper call
MaxHeapGrowth == 2

\* ------------------------------------------------------ program constants
\* while (!success && count < 60)
MaxAttempts == 60

\* const heap = new Array(128).fill(undefined)
HeapFill == 128
\* if (idx < 132) return;
HeapReserved == 132
\* wasm.__wbindgen_add_to_stack_pointer(-16)
StackFrame == 16

\* ------------------------------------------------------------ value sets
Procs == {1, 2}
\* the invocations of the sequential specification
SeqProcs == {1}

Flows == {"chainlink", "dory", "hyperkzg", "ts"}
SxTFlows == {"chainlink", "dory", "hyperkzg"}
SyncFlows == {"chainlink", "dory"}
AsyncFlows == {"hyperkzg", "ts"}

\* sxtApiKey / apiKey: "" is the empty (falsy) key
ApiKeys == {"", "key1"}
Tables == {"ethereum.blocks", "ETHEREUM.BLOCKS"}
\* blockHash argument: "null" is the default parameter value
BlockHashArgs == {"null", "b1"}
Tokens == {"tok1", "tok2"}
QueryIds == {"q1", "q2"}
AttestedHashes == {"h1", "h2"}
ProverQueries == {"pq1", "pq2"}
ProofPlans == {"plan1", "plan2"}
ProverResponses == {"resp1", "resp2"}
JobStatuses == {"pending", "done", "failed", "canceled"}
HexChars == {"a", "1"}

\* a JS value that is missing in a parsed body
Undefined == "undefined"

\* hex strings of 1..MaxHexLen characters
RECURSIVE HexStrings(_)
HexStrings(n) ==
    IF n = 0 THEN {<<>>}
    ELSE LET shorter == HexStrings(n - 1)
         IN  shorter \cup {Append(h, c) : h \in {x \in shorter : Len(x) = n - 1}, c \in HexChars}

Hex == HexStrings(MaxHexLen) \ {<<>>}

\* the `result` member of a state_getStorage body: null, "0x"+hex, or a
\* string that carries no 0x prefix
RpcResults ==
    {[isNull |-> TRUE, text |-> <<>>]}
    \cup {[isNull |-> FALSE, text |-> <<"0", "x">> \o h] : h \in Hex}
    \cup {[isNull |-> FALSE, text |-> h] : h \in Hex}

\* String.prototype.slice(2)
Slice2(s) == SubSeq(s, 3, Len(s))

\* commitment_storage_key_dory(table): the wasm key derivation, one key per
\* table reference
StorageKey(t) == IF t = "ethereum.blocks" THEN "k1" ELSE "k2"

\* "0x" + key, `0x${blockHash}`
Prefix0x(k) ==
    CASE k = "k1" -> "0xk1"
      [] k = "k2" -> "0xk2"
      [] k = "b1" -> "0xb1"
      [] OTHER -> "0x"

CommitmentKeys == {Prefix0x(StorageKey(t)) : t \in Tables}

\* new TableRefAndCommitment(table, commitment)
TableRefAndCommitment(t, c) == [table |-> t, commitment |-> c]

\* the planner may hand back the commitments with the table reference in
\* its canonical (upper case) spelling
Canonical(cms) ==
    [i \in DOMAIN cms |-> [cms[i] EXCEPT !.table = "ETHEREUM.BLOCKS"]]

\* terminal job statuses of the polling loops
IsTerminal(status) == status = "done" \/ status = "failed" \/ status = "canceled"

\* the typed result the verifier decodes from a prover response
VerifiedResult(resp) == <<"result", resp>>
\* a prover response handed to the caller as it came from the wire
RawResponse(resp) == <<"response", resp>>

\* ------------------------------------------------- the wasm object heap
\* a heap slot: a JS value, or the index of the next free slot
Value(v) == [kind |-> "value", obj |-> v, next |-> -1]
FreeSlot(n) == [kind |-> "free", obj |-> "-", next |-> n]

\* const heap = new Array(128).fill(undefined);
\* heap.push(undefined, null, true, false);   (heap[i] is InitialHeap[i + 1])
InitialHeap ==
    [i \in 1..(HeapFill + 4) |->
        IF i <= HeapFill + 1 THEN Value("undefined")
        ELSE IF i = HeapFill + 2 THEN Value("null")
        ELSE IF i = HeapFill + 3 THEN Value("true")
        ELSE Value("false")]

\* the heap with its free-list head, the objects handed out and not yet
\* taken back (stored: pairs of index and object), and the calls made
HeapState(h, n, st, calls) == [heap |-> h, heap_next |-> n, stored |-> st, calls |-> calls]

\* function getObject(idx) { return heap[idx]; }
getObject(hs, idx) == hs.heap[idx + 1]

\* what the bookkeeping says slot idx holds
StoredAt(hs, idx) ==
    IF \E e \in hs.stored : e.idx = idx
    THEN (CHOOSE e \in hs.stored : e.idx = idx).obj
    ELSE IF idx < HeapReserved THEN InitialHeap[idx + 1].obj ELSE "-"

\* function addHeapObject(obj)
addHeapObject(hs, obj) ==
    LET grown == IF hs.heap_next = Len(hs.heap)
                 THEN Append(hs.heap, FreeSlot(Len(hs.heap) + 1))
                 ELSE hs.heap
        idx == hs.heap_next
    IN  HeapState([grown EXCEPT ![idx + 1] = Value(obj)],
                  grown[idx + 1].next,
                  {e \in hs.stored : e.idx # idx} \cup {[idx |-> idx, obj |-> obj]},
                  Append(hs.calls,
                         [op |-> "add", idx |-> idx, obj |-> obj,
                          live |-> \E e \in hs.stored : e.idx = idx,
                          expected |-> obj]))

\* dropObject without `if (idx < 132) return;` (C29 must notice)
dropObjectUnguarded(hs, idx) ==
    HeapState([hs.heap EXCEPT ![idx + 1] = FreeSlot(hs.heap_next)], idx,
              {e \in hs.stored : e.idx # idx}, hs.calls)

\* function dropObject(idx)
dropObject(hs, idx) ==
    IF idx < HeapReserved
    THEN hs
    ELSE HeapState([hs.heap EXCEPT ![idx + 1] = FreeSlot(hs.heap_next)], idx,
                   {e \in hs.stored : e.idx # idx}, hs.calls)

\* function takeObject(idx) { const ret = getObject(idx); dropObject(idx); return ret; }
takeObject(hs, idx) ==
    LET ret == getObject(hs, idx)
        dropped == dropObject(hs, idx)
    IN  [dropped EXCEPT !.calls =
            Append(hs.calls,
                   [op |-> "take", idx |-> idx,
                    obj |-> IF ret.kind = "value" THEN ret.obj ELSE "number",
                    live |-> TRUE,
                    expected |-> StoredAt(hs, idx)])]

\* addHeapObject for every element of objs, in order
RECURSIVE addAll(_, _)
addAll(hs, objs) ==
    IF objs = <<>> THEN hs ELSE addAll(addHeapObject(hs, Head(objs)), Tail(objs))

\* takeObject for every index of idxs, in order
RECURSIVE takeAll(_, _)
takeAll(hs, idxs) ==
    IF idxs = <<>> THEN hs ELSE takeAll(takeObject(hs, Head(idxs)), Tail(idxs))

\* the exported wrappers
Wrappers == {"commitment_storage_key_dory", "plan_prover_query_dory",
             "verify_prover_response_dory"}

\* the JS values a wrapper puts on the heap for the call: the elements of
\* the commitments array (passArrayJsValueToWasm0), then the explicit
\* addHeapObject arguments
Marshalled(fn) ==
    CASE fn = "plan_prover_query_dory" -> <<"commitment">>
      [] fn = "verify_prover_response_dory" -> <<"commitment", "response", "queryExpr">>
      [] OTHER -> <<>>

\* objects the wasm side clones through its imports
ImportObjects == {"o1", "o2"}

VARIABLES
    pc,         \* pc[p]: the await/statement the invocation is at
    args,       \* args[p]: the arguments of the entry point (and the client's key)
    locals,     \* locals[p]: the local variables of the entry point's frame
    timer,      \* timer[p]: the abort timer of postHttpRequest (chainlink)
    log,        \* log[p]: requests issued and adapter calls made, in order
    planned,    \* planned[p]: what the plan call returned
    verified,   \* verified[p]: what the verify call was given and returned
    replies,    \* replies[p]: how each request other than a job status poll was settled
    polled,     \* polled[p]: summary of the job statuses the status endpoint returned
    outcome,    \* outcome[p]: what the caller got back
    cancel,     \* cancel[p]: the caller has asked for the invocation to be cancelled
    heap,       \* the wasm object heap (heap[i] of the source is heap[i + 1])
    heap_next,  \* head of the heap's free list
    stored,     \* which object each addHeapObject call that is not undone stored where
    heap_calls, \* the heap calls of the last step, with what they returned
    sp,         \* the wasm stack pointer, as an offset from its value at load
    wcall       \* the wrapper call in progress and how the last one ended

wasmVars == <<heap, heap_next, stored, heap_calls, sp, wcall>>

workflowVars ==
    <<pc, args, locals, timer, log, planned, verified, replies, polled, outcome, cancel>>

vars == <<workflowVars, wasmVars>>

NoCall == [fn |-> "-", at |-> "idle", passed |-> <<>>, r |-> -1, failed |-> FALSE,
           exit |-> "-"]

NoArgs ==
    [flow |-> "-", queryString |-> "-", apiKey |-> "-", table |-> "-",
     commitmentKey |-> "-", blockHash |-> "-"]

NoLocals ==
    [accessToken |-> "unset", commitmentKey |-> "unset", commitmentResult |-> <<>>,
     commitment |-> <<>>,
     commitments |-> <<>>, proverQuery |-> "unset", queryExpr |-> "unset",
     proverResponse |-> "unset", bestBlockHash |-> "unset", queryId |-> "unset",
     count |-> 0, success |-> FALSE]

NoPlan ==
    [called |-> FALSE, ok |-> FALSE, proverQuery |-> "unset", queryExpr |-> "unset",
     commitments |-> <<>>]

NoVerify ==
    [called |-> FALSE, ok |-> FALSE, response |-> "unset", plan |-> "unset",
     commitments |-> <<>>, result |-> <<>>]

\* n status bodies were read; pendingOnly: every one before the last was
\* "pending"; last: the status member of the last one
NoPolls == [n |-> 0, pendingOnly |-> TRUE, last |-> "-"]

NoOutcome == [kind |-> "none", value |-> <<>>, err |-> "-"]

Init ==
    /\ pc = [p \in Procs |-> "idle"]
    /\ args = [p \in Procs |-> NoArgs]
    /\ locals = [p \in Procs |-> NoLocals]
    /\ timer = [p \in Procs |-> "none"]
    /\ log = [p \in Procs |-> <<>>]
    /\ planned = [p \in Procs |-> NoPlan]
    /\ verified = [p \in Procs |-> NoVerify]
    /\ replies = [p \in Procs |-> <<>>]
    /\ polled = [p \in Procs |-> NoPolls]
    /\ outcome = [p \in Procs |-> NoOutcome]
    /\ cancel = [p \in Procs |-> FALSE]
    /\ heap = InitialHeap
    /\ heap_next = Len(InitialHeap)
    /\ stored = {}
    /\ heap_calls = <<>>
    /\ sp = 0
    /\ wcall = NoCall

\* ------------------------------------------------------------- helpers
\* one entry of the log: a request (op, bearer token, body/argument) or an
\* adapter call (op, first argument, plan, commitments)
Entry(op, token, arg, plan, cms) ==
    [op |-> op, token |-> token, arg |-> arg, plan |-> plan, cms |-> cms]

Request(op, token, arg) == Entry(op, token, arg, "-", <<>>)

\* an error leaves the async function: the promise is rejected with e
Throw(p, e) ==
    /\ pc' = [pc EXCEPT ![p] = "failed"]
    /\ outcome' = [outcome EXCEPT ![p] = [kind |-> "failed", value |-> <<>>, err |-> e]]

\* return v
Return(p, v) ==
    /\ pc' = [pc EXCEPT ![p] = "done"]
    /\ outcome' = [outcome EXCEPT ![p] = [kind |-> "returned", value |-> v, err |-> "-"]]

Goto(p, next) ==
    /\ pc' = [pc EXCEPT ![p] = next]
    /\ UNCHANGED outcome

Logged(p, entry) == log' = [log EXCEPT ![p] = Append(@, entry)]

\* how a request was settled: http is "ok" (success status), "bad"
\* (non-success status), "notjson" (a body that does not parse), "reject"
\* (the fetch promise rejected) or "abort" (the abort timer fired)
Reply(op, http, value) == [op |-> op, http |-> http, value |-> value]

Replied(p, op, http, value) ==
    replies' = [replies EXCEPT ![p] = Append(@, Reply(op, http, value))]

\* the status endpoint answered with a body whose status member is s
Polled(p, s) ==
    polled' = [polled EXCEPT ![p] =
                 [n |-> @.n + 1,
                  pendingOnly |-> @.pendingOnly /\ (@.n = 0 \/ @.last = "pending"),
                  last |-> s]]

\* body: data ? JSON.stringify(data) : undefined -- a falsy payload sends
\* no body, any other is serialised as it is
Body(data) ==
    IF data \in {"null", Undefined, ""}
    THEN [present |-> FALSE, json |-> "-"]
    ELSE [present |-> TRUE, json |-> data]

\* the pcs at which a request is in flight
WaitPcs ==
    {"authWait", "commitmentWait", "proofWait", "attestationWait", "submitWait",
     "statusWait", "resultWait"}

\* postHttpRequest up to its `await fetch`: the request leaves; the
\* chainlink helper arms setTimeout(() => controller.abort(), 3000) first
PostHttpRequest(p, entry, waitpc) ==
    /\ Logged(p, entry)
    /\ timer' = [timer EXCEPT ![p] = IF args[p].flow = "chainlink" THEN "armed" ELSE @]
    /\ Goto(p, waitpc)

\* getHttpRequest up to its `await fetch`
GetHttpRequest(p, entry, waitpc) ==
    /\ Logged(p, entry)
    /\ Goto(p, waitpc)
    /\ UNCHANGED timer

\* the fetch resolved with a response: clearTimeout(id); return response
Resolved(p) ==
    timer' = [timer EXCEPT ![p] = IF @ = "armed" THEN "cleared" ELSE @]

\* the fetch rejected: the await throws, clearTimeout(id) is not reached
Rejected(p, op) ==
    /\ Replied(p, op, "reject", "-")
    /\ Throw(p, "NetworkError")
    /\ UNCHANGED timer

\* ------------------------------------------------------- entry points
StartArgs ==
    {[flow |-> "chainlink", queryString |-> "q", apiKey |-> k, table |-> t,
      commitmentKey |-> ck, blockHash |-> "-"]
        : k \in ApiKeys, t \in Tables, ck \in CommitmentKeys}
    \cup {[flow |-> "dory", queryString |-> "q", apiKey |-> k, table |-> t,
           commitmentKey |-> "-", blockHash |-> b]
        : k \in ApiKeys, t \in Tables, b \in BlockHashArgs}
    \cup {[flow |-> "hyperkzg", queryString |-> "q", apiKey |-> k, table |-> "-",
           commitmentKey |-> "-", blockHash |-> b]
        : k \in ApiKeys, b \in BlockHashArgs \cup {""}}
    \cup {[flow |-> "ts", queryString |-> "q", apiKey |-> k, table |-> "-",
           commitmentKey |-> "-", blockHash |-> "-"]
        : k \in ApiKeys}

\* a caller invokes one of the entry points; the chainlink variant takes
\* the storage key as a parameter, the dory variant computes it first
Start(p) ==
    /\ pc[p] = "idle"
    /\ \E a \in StartArgs :
        /\ args' = [args EXCEPT ![p] = a]
        /\ locals' = [locals EXCEPT ![p].commitmentKey =
                        IF a.flow = "chainlink" THEN a.commitmentKey ELSE @]
        /\ Goto(p, IF a.flow = "dory" THEN "storageKey" ELSE "auth")
    /\ UNCHANGED <<wasmVars, cancel, timer, log, planned, verified, replies, polled>>

\* const commitmentKey = "0x" + commitment_storage_key_dory(table); the
\* wasm wrapper throws the adapter's error when the table reference is bad
CommitmentStorageKey(p) ==
    /\ pc[p] = "storageKey"
    /\ Logged(p, Entry("storage_key", "-", args[p].table, "-", <<>>))
    /\ \/ /\ locals' = [locals EXCEPT ![p].commitmentKey = Prefix0x(StorageKey(args[p].table))]
          /\ Goto(p, "auth")
       \/ /\ Throw(p, "StorageKeyError")
          /\ UNCHANGED locals
    /\ UNCHANGED <<wasmVars, cancel, args, timer, planned, verified, replies, polled>>

\* ------------------------------------------- SxTClient.#getAccessToken
\* where queryAndVerify goes once it holds the access token
AfterAuth(flow) == IF flow = "hyperkzg" THEN "attestation" ELSE "commitment"

\* GetAccessToken with a token cache: a token an earlier invocation
\* obtained is reused and no auth request is sent (C14 must notice)
GetAccessTokenCached(p) ==
    /\ pc[p] = "auth"
    /\ args[p].flow \in SxTFlows
    /\ IF args[p].apiKey = ""
       THEN /\ Throw(p, "API Key Not Found")
            /\ UNCHANGED <<log, timer, locals>>
       ELSE IF \E q \in Procs : locals[q].accessToken \in Tokens
            THEN /\ locals' = [locals EXCEPT ![p].accessToken =
                                 CHOOSE t \in Tokens : \E q \in Procs : locals[q].accessToken = t]
                 /\ Goto(p, AfterAuth(args[p].flow))
                 /\ UNCHANGED <<log, timer>>
            ELSE /\ PostHttpRequest(p, Request("auth", "-", args[p].apiKey), "authWait")
                 /\ UNCHANGED locals
    /\ UNCHANGED <<wasmVars, cancel, args, planned, verified, replies, polled>>

\* if (!this.sxtApiKey) throw Error("API Key Not Found"); else the auth
\* request is posted
GetAccessToken(p) ==
    /\ pc[p] = "auth"
    /\ args[p].flow \in SxTFlows
    /\ IF args[p].apiKey = ""
       THEN /\ Throw(p, "API Key Not Found")
            /\ UNCHANGED <<log, timer>>
       ELSE PostHttpRequest(p, Request("auth", "-", args[p].apiKey), "authWait")
    /\ UNCHANGED <<wasmVars, cancel, args, locals, planned, verified, replies, polled>>

\* AuthResponse with the token kept in one field that every invocation
\* reads, instead of a local of queryAndVerify (C13 must notice)
AuthResponseSharedToken(p) ==
    /\ pc[p] = "authWait"
    /\ args[p].flow \in SxTFlows
    /\ \/ /\ Rejected(p, "auth")
          /\ UNCHANGED locals
       \/ /\ Replied(p, "auth", "bad", "-")
          /\ Resolved(p)
          /\ Throw(p, "Error querying auth endpoint")
          /\ UNCHANGED locals
       \/ \E tok \in Tokens :
            /\ Replied(p, "auth", "ok", tok)
            /\ Resolved(p)
            /\ locals' = [q \in Procs |-> [locals[q] EXCEPT !.accessToken = tok]]
            /\ Goto(p, AfterAuth(args[p].flow))
    /\ UNCHANGED <<wasmVars, cancel, args, log, planned, verified, polled>>

\* if (!authResponse.ok) throw ...; return authResponse.json(), and
\* const accessToken = authResponse.accessToken
AuthResponse(p) ==
    /\ pc[p] = "authWait"
    /\ args[p].flow \in SxTFlows
    /\ \/ /\ Rejected(p, "auth")
          /\ UNCHANGED locals
       \/ /\ Replied(p, "auth", "bad", "-")
          /\ Resolved(p)
          /\ Throw(p, "Error querying auth endpoint")
          /\ UNCHANGED locals
       \/ \E tok \in Tokens :
            /\ Replied(p, "auth", "ok", tok)
            /\ Resolved(p)
            /\ locals' = [locals EXCEPT ![p].accessToken = tok]
            /\ Goto(p, AfterAuth(args[p].flow))
    /\ UNCHANGED <<wasmVars, cancel, args, log, planned, verified, polled>>

\* --------------------------------------------- SxTClient.#getCommitment
\* state_getStorage with params [commitmentKey]
GetCommitment(p) ==
    /\ pc[p] = "commitment"
    /\ PostHttpRequest(p, Request("state_getStorage", "-", locals[p].commitmentKey),
                       "commitmentWait")
    /\ UNCHANGED <<wasmVars, cancel, args, locals, planned, verified, replies, polled>>

\* CommitmentResponse with (commitmentResponse.result ?? "").slice(2): a
\* null result is read as an empty commitment (C24 must notice)
CommitmentResponseNullAsEmpty(p) ==
    /\ pc[p] = "commitmentWait"
    /\ \/ /\ Rejected(p, "state_getStorage")
          /\ UNCHANGED locals
       \/ /\ Replied(p, "state_getStorage", "bad", "-")
          /\ Resolved(p)
          /\ Throw(p, "Error querying RPC node")
          /\ UNCHANGED locals
       \/ \E r \in RpcResults :
            /\ Replied(p, "state_getStorage", "ok", IF r.isNull THEN "null" ELSE "text")
            /\ Resolved(p)
            /\ locals' = [locals EXCEPT ![p].commitmentResult = r.text,
                                        ![p].commitment = Slice2(r.text)]
            /\ Goto(p, "plan")
    /\ UNCHANGED <<wasmVars, cancel, args, log, planned, verified, polled>>

\* if (!commitmentResponse.ok) throw ...; then
\* const commitment = commitmentResponse.result.slice(2): a null result
\* makes .slice throw a TypeError
CommitmentResponse(p) ==
    /\ pc[p] = "commitmentWait"
    /\ \/ /\ Rejected(p, "state_getStorage")
          /\ UNCHANGED locals
       \/ /\ Replied(p, "state_getStorage", "bad", "-")
          /\ Resolved(p)
          /\ Throw(p, "Error querying RPC node")
          /\ UNCHANGED locals
       \/ \E r \in RpcResults :
            /\ Replied(p, "state_getStorage", "ok", IF r.isNull THEN "null" ELSE "text")
            /\ Resolved(p)
            /\ IF r.isNull
               THEN /\ Throw(p, "TypeError")
                    /\ UNCHANGED locals
               ELSE /\ locals' = [locals EXCEPT ![p].commitmentResult = r.text,
                                                ![p].commitment = Slice2(r.text)]
                    /\ Goto(p, "plan")
    /\ UNCHANGED <<wasmVars, cancel, args, log, planned, verified, polled>>

\* ------------------------------------------------ planning (sync flows)
\* PlanAssign without `commitments = plannedProverQuery.commitments`: the
\* list built from the RPC result stays in the frame (C3 must notice)
PlanAssignStale(l, ret) ==
    [l EXCEPT !.proverQuery = ret.proverQuery,
              !.queryExpr = ret.queryExpr]

\* const proverQuery = plannedProverQuery.prover_query_json;
\* const queryExpr = plannedProverQuery.query_expr_json;
\* commitments = plannedProverQuery.commitments;
PlanAssign(l, ret) ==
    [l EXCEPT !.proverQuery = ret.proverQuery,
              !.queryExpr = ret.queryExpr,
              !.commitments = ret.commitments]

\* what plan_prover_query_dory(query, commitments) may return
PlanReturns(cms) ==
    {[called |-> TRUE, ok |-> TRUE, proverQuery |-> pq, queryExpr |-> qe,
      commitments |-> out]
        : pq \in ProverQueries, qe \in ProofPlans, out \in {cms, Canonical(cms)}}

\* let commitments = [new TableRefAndCommitment(table, commitment)];
\* const plannedProverQuery = plan_prover_query_dory(queryString, commitments);
\* the wrapper throws the adapter's error when planning fails
Plan(p) ==
    /\ pc[p] = "plan"
    /\ LET cms == <<TableRefAndCommitment(args[p].table, locals[p].commitment)>>
       IN  /\ Logged(p, Entry("plan", "-", args[p].queryString, "-", cms))
           /\ \/ /\ planned' = [planned EXCEPT ![p] = [NoPlan EXCEPT !.called = TRUE]]
                 /\ locals' = [locals EXCEPT ![p].commitments = cms]
                 /\ Throw(p, "PlanError")
              \/ \E ret \in PlanReturns(cms) :
                   /\ planned' = [planned EXCEPT ![p] = ret]
                   /\ locals' = [locals EXCEPT
                                   ![p] = PlanAssign([@ EXCEPT !.commitments = cms], ret)]
                   /\ Goto(p, "proof")
    /\ UNCHANGED <<wasmVars, cancel, args, timer, verified, replies, polled>>

\* ------------------------------------------------- SxTClient.#getProof
\* GetProof with the await on #getProof missing: the request leaves and
\* queryAndVerify runs on to verify at once (C6 must notice)
GetProofNoAwait(p) ==
    /\ pc[p] = "proof"
    /\ PostHttpRequest(p, Request("prove", locals[p].accessToken, locals[p].proverQuery),
                       "verify")
    /\ UNCHANGED <<wasmVars, cancel, args, locals, planned, verified, replies, polled>>

\* POST proverRootURL, Authorization: "Bearer " + accessToken, data: proverQuery
GetProof(p) ==
    /\ pc[p] = "proof"
    /\ PostHttpRequest(p, Request("prove", locals[p].accessToken, locals[p].proverQuery),
                       "proofWait")
    /\ UNCHANGED <<wasmVars, cancel, args, locals, planned, verified, replies, polled>>

\* ProverRejected without the `!proverResponse.ok` test: the error body
\* is parsed and handed on to verify (C7 must notice)
ProverRejectedIgnored(p) ==
    /\ locals' = [locals EXCEPT ![p].proverResponse = "errorBody"]
    /\ Goto(p, "verify")

\* a non-success status of the prover: throw new Error("Error querying prover ...")
ProverRejected(p) ==
    /\ Throw(p, "Error querying prover")
    /\ UNCHANGED locals

\* ProofResponse with the parsed body replaced by a normalised one before
\* it is handed on (C22 must notice)
ProofResponseRepaired(p) ==
    /\ pc[p] = "proofWait"
    /\ \/ /\ Rejected(p, "prove")
          /\ UNCHANGED locals
       \/ /\ Replied(p, "prove", "bad", "-")
          /\ Resolved(p)
          /\ ProverRejected(p)
       \/ \E r \in ProverResponses :
            /\ Replied(p, "prove", "ok", r)
            /\ Resolved(p)
            /\ locals' = [locals EXCEPT ![p].proverResponse = "resp1"]
            /\ Goto(p, "verify")
    /\ UNCHANGED <<wasmVars, cancel, args, log, planned, verified, polled>>

\* if (!proverResponse.ok) throw ...; return proverResponse.json()
ProofResponse(p) ==
    /\ pc[p] = "proofWait"
    /\ \/ /\ Rejected(p, "prove")
          /\ UNCHANGED locals
       \/ /\ Replied(p, "prove", "bad", "-")
          /\ Resolved(p)
          /\ ProverRejected(p)
       \/ \E r \in ProverResponses :
            /\ Replied(p, "prove", "ok", r)
            /\ Resolved(p)
            /\ locals' = [locals EXCEPT ![p].proverResponse = r]
            /\ Goto(p, "verify")
    /\ UNCHANGED <<wasmVars, cancel, args, log, planned, verified, polled>>

\* ----------------------------------------------------------- verifying
\* verify_prover_response_dory(proverResponseJson, queryExpr, commitments)
VerifyArguments(l) ==
    [response |-> l.proverResponse, plan |-> l.queryExpr, commitments |-> l.commitments]

\* VerifyThrows with the error caught and a default handed back (C2 must
\* notice)
VerifyThrowsSwallowed(p, call) ==
    /\ verified' = [verified EXCEPT ![p] =
                      [called |-> TRUE, ok |-> FALSE, response |-> call.response,
                       plan |-> call.plan, commitments |-> call.commitments,
                       result |-> <<>>]]
    /\ Return(p, <<>>)

\* the wrapper's error exit: if (r2) throw takeObject(r1); the caller has
\* no try/catch, so the error leaves queryAndVerify
VerifyThrows(p, call) ==
    /\ verified' = [verified EXCEPT ![p] =
                      [called |-> TRUE, ok |-> FALSE, response |-> call.response,
                       plan |-> call.plan, commitments |-> call.commitments,
                       result |-> <<>>]]
    /\ Throw(p, "VerifyError")

\* the wrapper's normal exit: return takeObject(r0); and `return result`
VerifyReturns(p, call) ==
    /\ verified' = [verified EXCEPT ![p] =
                      [called |-> TRUE, ok |-> TRUE, response |-> call.response,
                       plan |-> call.plan, commitments |-> call.commitments,
                       result |-> VerifiedResult(call.response)]]
    /\ Return(p, VerifiedResult(call.response))

\* const result = verify_prover_response_dory(...); return result;
Verify(p) ==
    /\ pc[p] = "verify"
    /\ args[p].flow \in SyncFlows
    /\ LET call == VerifyArguments(locals[p])
       IN  /\ Logged(p, Entry("verify", "-", call.response, call.plan, call.commitments))
           /\ \/ VerifyThrows(p, call)
              \/ VerifyReturns(p, call)
    /\ UNCHANGED <<wasmVars, cancel, args, locals, timer, planned, replies, polled>>

\* ------------------------------------------- the chainlink abort timer
\* TimerFires with the abort swallowed: the aborted fetch is treated as an
\* empty answer and queryAndVerify runs on (C16 must notice)
TimerFiresIgnored(p) ==
    /\ timer[p] = "armed"
    /\ timer' = [timer EXCEPT ![p] = "fired"]
    /\ IF pc[p] \in WaitPcs
       THEN /\ Goto(p, CASE pc[p] = "authWait" -> "commitment"
                          [] pc[p] = "commitmentWait" -> "plan"
                          [] OTHER -> "verify")
            /\ Replied(p, log[p][Len(log[p])].op, "abort", "-")
       ELSE UNCHANGED <<pc, outcome, replies>>
    /\ UNCHANGED <<wasmVars, cancel, args, locals, log, planned, verified, polled>>

\* setTimeout(() => controller.abort(), 3000) runs: a request still in
\* flight is aborted and its await throws; a timer left armed by a
\* rejected fetch fires with nothing to abort
TimerFires(p) ==
    /\ timer[p] = "armed"
    /\ timer' = [timer EXCEPT ![p] = "fired"]
    /\ IF pc[p] \in WaitPcs
       THEN /\ Throw(p, "AbortError")
            /\ Replied(p, log[p][Len(log[p])].op, "abort", "-")
       ELSE UNCHANGED <<pc, outcome, replies>>
    /\ UNCHANGED <<wasmVars, cancel, args, locals, log, planned, verified, polled>>

\* ------------------------------------- asynchronous flow (hyperkzg)
\* !!blockHash: null and the empty string are falsy
Truthy(blockHash) == blockHash # "null" /\ blockHash # ""

\* GetAttestations without the test of blockHash: the best recent
\* attestations are always asked for (C15 must notice)
GetAttestationsAlwaysBest(p) ==
    /\ pc[p] = "attestation"
    /\ PostHttpRequest(p, Request("attestation_v1_bestRecentAttestations", "-", "null"),
                       "attestationWait")
    /\ UNCHANGED <<wasmVars, cancel, args, locals, planned, verified, replies, polled>>

\* #getAttestations: the RPC method is chosen by !!blockHash
GetAttestations(p) ==
    /\ pc[p] = "attestation"
    /\ PostHttpRequest(p,
          IF Truthy(args[p].blockHash)
          THEN Request("attestation_v1_attestationsForBlock", "-", Prefix0x(args[p].blockHash))
          ELSE Request("attestation_v1_bestRecentAttestations", "-", "null"),
          "attestationWait")
    /\ UNCHANGED <<wasmVars, cancel, args, locals, planned, verified, replies, polled>>

\* if (!response.ok) throw ...; then
\* const bestBlockHash = attestationsResponse.result.attestationsFor:
\* a null result throws a TypeError, an empty one yields undefined
AttestationResponse(p) ==
    /\ pc[p] = "attestationWait"
    /\ \/ /\ Rejected(p, "attestation")
          /\ UNCHANGED locals
       \/ /\ Replied(p, "attestation", "bad", "-")
          /\ Resolved(p)
          /\ Throw(p, "Error querying RPC node")
          /\ UNCHANGED locals
       \/ /\ Replied(p, "attestation", "ok", "null")
          /\ Resolved(p)
          /\ Throw(p, "TypeError")
          /\ UNCHANGED locals
       \/ \E h \in AttestedHashes \cup {Undefined} :
            /\ Replied(p, "attestation", "ok", h)
            /\ Resolved(p)
            /\ locals' = [locals EXCEPT ![p].bestBlockHash = h]
            /\ Goto(p, "submit")
    /\ UNCHANGED <<wasmVars, cancel, args, log, planned, verified, polled>>

\* SubmitZkQueryRequest with blockHash: blockHash, the caller's argument,
\* in place of the attested hash (C21 must notice)
SubmitZkQueryRequestCallerHash(p) ==
    /\ pc[p] = "submit"
    /\ args[p].flow = "hyperkzg"
    /\ PostHttpRequest(p, Request("submit", locals[p].accessToken, args[p].blockHash),
                       "submitWait")
    /\ UNCHANGED <<wasmVars, cancel, args, locals, planned, verified, replies, polled>>

\* #submitZkQueryRequest(accessToken, {sqlText, sourceNetwork,
\* commitmentScheme, blockHash: bestBlockHash, timeout})
SubmitZkQueryRequest(p) ==
    /\ pc[p] = "submit"
    /\ args[p].flow = "hyperkzg"
    /\ PostHttpRequest(p, Request("submit", locals[p].accessToken, locals[p].bestBlockHash),
                       "submitWait")
    /\ UNCHANGED <<wasmVars, cancel, args, locals, planned, verified, replies, polled>>

\* #postZkQueryApi: if (!proverResponse.ok) throw ...; then
\* let queryId = submitQueryResponse.queryId; let count = 0; the first
\* status request follows
SubmitResponse(p) ==
    /\ pc[p] = "submitWait"
    /\ args[p].flow = "hyperkzg"
    /\ \/ /\ Rejected(p, "submit")
          /\ UNCHANGED locals
       \/ /\ Replied(p, "submit", "bad", "-")
          /\ Resolved(p)
          /\ Throw(p, "Error querying zk query api")
          /\ UNCHANGED locals
       \/ \E q \in QueryIds :
            /\ Replied(p, "submit", "ok", q)
            /\ Resolved(p)
            /\ locals' = [locals EXCEPT ![p].queryId = q, ![p].count = 0]
            /\ Goto(p, "status")
    /\ UNCHANGED <<wasmVars, cancel, args, log, planned, verified, polled>>

\* #getZkQueryStatus(accessToken, queryId): GET .../{queryId}/status
GetZkQueryStatus(p) ==
    /\ pc[p] = "status"
    /\ args[p].flow = "hyperkzg"
    /\ GetHttpRequest(p, Request("status", locals[p].accessToken, locals[p].queryId),
                      "statusWait")
    /\ UNCHANGED <<wasmVars, cancel, args, locals, planned, verified, replies, polled>>

\* #getZkQueryApi: if (!proverResponse.ok) throw ...; then
\* success = statusResponse === "done" || ... "failed" || ... "canceled"
StatusResponse(p) ==
    /\ pc[p] = "statusWait"
    /\ args[p].flow = "hyperkzg"
    /\ \/ /\ Rejected(p, "status")
          /\ UNCHANGED <<locals, polled>>
       \/ /\ Replied(p, "status", "bad", "-")
          /\ Throw(p, "Error querying prover")
          /\ UNCHANGED <<locals, timer, polled>>
       \/ \E s \in JobStatuses :
            /\ Polled(p, s)
            /\ locals' = [locals EXCEPT ![p].success = IsTerminal(s)]
            /\ Goto(p, "loop")
            /\ UNCHANGED <<timer, replies>>
    /\ UNCHANGED <<wasmVars, cancel, args, log, planned, verified>>

\* KeepPolling without the `!success` test: the loop polls on after a
\* terminal status (C10 must notice)
KeepPollingIgnoresSuccess(l) == l.count < MaxAttempts

\* the loop condition: !success && count < 60
KeepPolling(l) == ~l.success /\ l.count < MaxAttempts

\* while (!success && count < 60) { count++; ... }: the test, and the
\* increment when the body is entered; otherwise the result is fetched
PollLoop(p) ==
    /\ pc[p] = "loop"
    /\ args[p].flow = "hyperkzg"
    /\ IF KeepPolling(locals[p])
       THEN /\ locals' = [locals EXCEPT ![p].count = @ + 1]
            /\ Goto(p, "sleep")
       ELSE /\ Goto(p, "result")
            /\ UNCHANGED locals
    /\ UNCHANGED <<wasmVars, cancel, args, timer, log, planned, verified, replies, polled>>

\* Sleep with a promise whose resolve is never called: the invocation
\* stays suspended in the sleep (C12 must notice)
SleepNeverResolves(p) ==
    /\ pc[p] = "sleep"
    /\ args[p].flow = "hyperkzg"
    /\ Logged(p, Entry("sleep", "-", "1000", "-", <<>>))
    /\ Goto(p, "asleep")
    /\ UNCHANGED <<wasmVars, cancel, args, locals, timer, planned, verified, replies, polled>>

\* await sleep(1000)
Sleep(p) ==
    /\ pc[p] = "sleep"
    /\ args[p].flow = "hyperkzg"
    /\ Logged(p, Entry("sleep", "-", "1000", "-", <<>>))
    /\ Goto(p, "status")
    /\ UNCHANGED <<wasmVars, cancel, args, locals, timer, planned, verified, replies, polled>>

\* #getZkQueryResult(accessToken, queryId): GET .../{queryId}/results
GetZkQueryResult(p) ==
    /\ pc[p] = "result"
    /\ args[p].flow = "hyperkzg"
    /\ GetHttpRequest(p, Request("results", locals[p].accessToken, locals[p].queryId),
                      "resultWait")
    /\ UNCHANGED <<wasmVars, cancel, args, locals, planned, verified, replies, polled>>

\* #getZkQueryApi: if (!proverResponse.ok) throw ...; return proverResponse.json()
ResultResponse(p) ==
    /\ pc[p] = "resultWait"
    /\ args[p].flow = "hyperkzg"
    /\ \/ /\ Rejected(p, "results")
          /\ UNCHANGED locals
       \/ /\ Replied(p, "results", "bad", "-")
          /\ Throw(p, "Error querying prover")
          /\ UNCHANGED <<locals, timer>>
       \/ \E r \in ProverResponses :
            /\ Replied(p, "results", "ok", r)
            /\ locals' = [locals EXCEPT ![p].proverResponse = r]
            /\ Goto(p, "verify")
            /\ UNCHANGED timer
    /\ UNCHANGED <<wasmVars, cancel, args, log, planned, verified, polled>>

\* const result = verify_prover_response_hyper_kzg(proverResponseJson);
\* return result;
VerifyHyperKzg(p) ==
    /\ pc[p] = "verify"
    /\ args[p].flow = "hyperkzg"
    /\ LET call == [response |-> locals[p].proverResponse, plan |-> "-", commitments |-> <<>>]
       IN  /\ Logged(p, Entry("verify", "-", call.response, call.plan, call.commitments))
           /\ \/ VerifyThrows(p, call)
              \/ VerifyReturns(p, call)
    /\ UNCHANGED <<wasmVars, cancel, args, locals, timer, planned, replies, polled>>

\* --------------------------------------------- proofOfSqlQuery (ts)
\* a body that is not JSON, whatever its status: `await response.json()`
\* throws
NotJson(p, op) ==
    /\ Replied(p, op, "notjson", "-")
    /\ Throw(p, "SyntaxError")
    /\ UNCHANGED locals

\* getAccessToken(apiKey) up to its fetch: POST .../auth/apikey with
\* header apikey
TsGetAccessToken(p) ==
    /\ pc[p] = "auth"
    /\ args[p].flow = "ts"
    /\ GetHttpRequest(p, Request("auth", "-", args[p].apiKey), "authWait")
    /\ UNCHANGED <<wasmVars, cancel, args, locals, planned, verified, replies, polled>>

\* return (await response.json()).accessToken: the status is not looked
\* at, an error body has no accessToken member
TsAuthResponse(p) ==
    /\ pc[p] = "authWait"
    /\ args[p].flow = "ts"
    /\ \/ /\ Rejected(p, "auth")
          /\ UNCHANGED locals
       \/ NotJson(p, "auth")
       \/ \E tok \in Tokens :
            /\ Replied(p, "auth", "ok", tok)
            /\ locals' = [locals EXCEPT ![p].accessToken = tok]
            /\ Goto(p, "submit")
       \/ /\ Replied(p, "auth", "bad", Undefined)
          /\ locals' = [locals EXCEPT ![p].accessToken = Undefined]
          /\ Goto(p, "submit")
    /\ UNCHANGED <<wasmVars, cancel, args, timer, log, planned, verified, polled>>

\* postQuerySubmitRequest(query, accessToken) up to its fetch
TsPostQuerySubmitRequest(p) ==
    /\ pc[p] = "submit"
    /\ args[p].flow = "ts"
    /\ GetHttpRequest(p, Request("submit", locals[p].accessToken, args[p].queryString),
                      "submitWait")
    /\ UNCHANGED <<wasmVars, cancel, args, locals, planned, verified, replies, polled>>

\* return (await response.json()).queryId; then let success = false;
\* let count = 0; and the loop is entered
TsSubmitResponse(p) ==
    /\ pc[p] = "submitWait"
    /\ args[p].flow = "ts"
    /\ \/ /\ Rejected(p, "submit")
          /\ UNCHANGED locals
       \/ NotJson(p, "submit")
       \/ \E q \in QueryIds :
            /\ Replied(p, "submit", "ok", q)
            /\ locals' = [locals EXCEPT ![p].queryId = q, ![p].success = FALSE,
                                         ![p].count = 0]
            /\ Goto(p, "loop")
       \/ /\ Replied(p, "submit", "bad", Undefined)
          /\ locals' = [locals EXCEPT ![p].queryId = Undefined, ![p].success = FALSE,
                                       ![p].count = 0]
          /\ Goto(p, "loop")
    /\ UNCHANGED <<wasmVars, cancel, args, timer, log, planned, verified, polled>>

\* while (!success && count < 60) { count++; ... }
TsPollLoop(p) ==
    /\ pc[p] = "loop"
    /\ args[p].flow = "ts"
    /\ IF KeepPolling(locals[p])
       THEN /\ locals' = [locals EXCEPT ![p].count = @ + 1]
            /\ Goto(p, "sleep")
       ELSE /\ Goto(p, "result")
            /\ UNCHANGED locals
    /\ UNCHANGED <<wasmVars, cancel, args, timer, log, planned, verified, replies, polled>>

\* await sleep(1000)
TsSleep(p) ==
    /\ pc[p] = "sleep"
    /\ args[p].flow = "ts"
    /\ Logged(p, Entry("sleep", "-", "1000", "-", <<>>))
    /\ Goto(p, "status")
    /\ UNCHANGED <<wasmVars, cancel, args, locals, timer, planned, verified, replies, polled>>

\* getRequestStatus(queryId, accessToken) up to its fetch
TsGetRequestStatus(p) ==
    /\ pc[p] = "status"
    /\ args[p].flow = "ts"
    /\ GetHttpRequest(p, Request("status", locals[p].accessToken, locals[p].queryId),
                      "statusWait")
    /\ UNCHANGED <<wasmVars, cancel, args, locals, planned, verified, replies, polled>>

\* return (await response.json()).status; then success = ... === "done"
\* || ... === "failed" || ... === "canceled"
TsStatusResponse(p) ==
    /\ pc[p] = "statusWait"
    /\ args[p].flow = "ts"
    /\ \/ /\ Rejected(p, "status")
          /\ UNCHANGED <<locals, polled>>
       \/ /\ NotJson(p, "status")
          /\ UNCHANGED polled
       \/ \E s \in JobStatuses \cup {Undefined} :
            /\ Polled(p, s)
            /\ locals' = [locals EXCEPT ![p].success = IsTerminal(s)]
            /\ Goto(p, "loop")
            /\ UNCHANGED replies
    /\ UNCHANGED <<wasmVars, cancel, args, timer, log, planned, verified>>

\* getResults(queryId, accessToken) up to its fetch
TsGetResults(p) ==
    /\ pc[p] = "result"
    /\ args[p].flow = "ts"
    /\ GetHttpRequest(p, Request("results", locals[p].accessToken, locals[p].queryId),
                      "resultWait")
    /\ UNCHANGED <<wasmVars, cancel, args, locals, planned, verified, replies, polled>>

\* const bodyText = await response.json(); return bodyText; and
\* return await getResults(queryId, accessToken)
TsResultsResponse(p) ==
    /\ pc[p] = "resultWait"
    /\ args[p].flow = "ts"
    /\ \/ /\ Rejected(p, "results")
          /\ UNCHANGED locals
       \/ NotJson(p, "results")
       \/ \E r \in ProverResponses :
            /\ Replied(p, "results", "ok", r)
            /\ locals' = [locals EXCEPT ![p].proverResponse = r]
            /\ Return(p, RawResponse(r))
       \/ /\ Replied(p, "results", "bad", "errorBody")
          /\ locals' = [locals EXCEPT ![p].proverResponse = "errorBody"]
          /\ Return(p, RawResponse("errorBody"))
    /\ UNCHANGED <<wasmVars, cancel, args, timer, log, planned, verified, polled>>

\* ------------------------------------------------------ specification
Step(p) ==
    \/ Start(p)
    \/ CommitmentStorageKey(p)
    \/ GetAccessToken(p)
    \/ AuthResponse(p)
    \/ GetCommitment(p)
    \/ CommitmentResponse(p)
    \/ Plan(p)
    \/ GetProof(p)
    \/ ProofResponse(p)
    \/ Verify(p)
    \/ TimerFires(p)
    \/ GetAttestations(p)
    \/ AttestationResponse(p)
    \/ SubmitZkQueryRequest(p)
    \/ SubmitResponse(p)
    \/ GetZkQueryStatus(p)
    \/ StatusResponse(p)
    \/ PollLoop(p)
    \/ Sleep(p)
    \/ GetZkQueryResult(p)
    \/ ResultResponse(p)
    \/ VerifyHyperKzg(p)
    \/ TsGetAccessToken(p)
    \/ TsAuthResponse(p)
    \/ TsPostQuerySubmitRequest(p)
    \/ TsSubmitResponse(p)
    \/ TsPollLoop(p)
    \/ TsSleep(p)
    \/ TsGetRequestStatus(p)
    \/ TsStatusResponse(p)
    \/ TsGetResults(p)
    \/ TsResultsResponse(p)

Next == \E p \in SeqProcs : Step(p)

Spec == Init /\ [][Next]_vars

\* the caller asks for the invocation to be cancelled while it is between
\* two polling attempts; queryAndVerify and proofOfSqlQuery take no signal
\* and read no flag, so the request changes nothing they hold
RequestCancel(p) ==
    /\ args[p].flow \in AsyncFlows
    /\ pc[p] \in {"loop", "sleep"}
    /\ ~cancel[p]
    /\ cancel' = [cancel EXCEPT ![p] = TRUE]
    /\ UNCHANGED <<wasmVars, pc, args, locals, timer, log, planned, verified, replies,
                   polled, outcome>>

NextCancel == Next \/ \E p \in SeqProcs : RequestCancel(p)

SpecCancel == Init /\ [][NextCancel]_vars

\* the event loop runs every continuation that is ready: a settled
\* request, an elapsed sleep or the next statement of a started invocation
\* is eventually executed
Progress(p) == pc[p] # "idle" /\ Step(p)

SpecFair == Spec /\ \A p \in SeqProcs : WF_vars(Progress(p))

\* ------------------------- invocations interleaved at their await points
\* status reads per invocation that the interleaved exploration follows
MaxConcPolls == 1

\* the calls the concurrent callers make
ConcArgs ==
    {a \in StartArgs :
        /\ a.apiKey = "key1"
        /\ a.table \in {"-", "ethereum.blocks"}
        /\ a.commitmentKey \in {"-", "0xk1"}
        /\ a.blockHash \in {"-", "null"}}

\* the part of an invocation's run the interleaved exploration follows: the
\* callers' arguments, MaxConcPolls status reads of a job that is pending
\* or done, and one value for each
\* answer that is only handed on (commitment, plan, attested hash, prover
\* response); access tokens and job ids keep all their values
ConcBounded(p) ==
    /\ args[p] \in ConcArgs \cup {NoArgs}
    /\ polled[p].n <= MaxConcPolls
    /\ polled[p].last \in {"-", "pending", "done"}
    /\ locals[p].commitmentResult \in {<<>>, <<"0", "x", "a">>, <<"a">>}
    /\ planned[p].proverQuery \in {"unset", "pq1"}
    /\ planned[p].queryExpr \in {"unset", "plan1"}
    /\ locals[p].bestBlockHash \in {"unset", "h1"}
    /\ locals[p].proverResponse \in {"unset", "resp1", "errorBody"}

\* one step of invocation p; any other invocation may take the next one
ConcStep(p) ==
    \/ Start(p) /\ ConcBounded(p)'
    \/ CommitmentStorageKey(p) /\ ConcBounded(p)'
    \/ GetAccessToken(p) /\ ConcBounded(p)'
    \/ AuthResponse(p) /\ ConcBounded(p)'
    \/ GetCommitment(p) /\ ConcBounded(p)'
    \/ CommitmentResponse(p) /\ ConcBounded(p)'
    \/ Plan(p) /\ ConcBounded(p)'
    \/ GetProof(p) /\ ConcBounded(p)'
    \/ ProofResponse(p) /\ ConcBounded(p)'
    \/ Verify(p) /\ ConcBounded(p)'
    \/ TimerFires(p) /\ ConcBounded(p)'
    \/ GetAttestations(p) /\ ConcBounded(p)'
    \/ AttestationResponse(p) /\ ConcBounded(p)'
    \/ SubmitZkQueryRequest(p) /\ ConcBounded(p)'
    \/ SubmitResponse(p) /\ ConcBounded(p)'
    \/ GetZkQueryStatus(p) /\ ConcBounded(p)'
    \/ StatusResponse(p) /\ ConcBounded(p)'
    \/ PollLoop(p) /\ ConcBounded(p)'
    \/ Sleep(p) /\ ConcBounded(p)'
    \/ GetZkQueryResult(p) /\ ConcBounded(p)'
    \/ ResultResponse(p) /\ ConcBounded(p)'
    \/ VerifyHyperKzg(p) /\ ConcBounded(p)'
    \/ TsGetAccessToken(p) /\ ConcBounded(p)'
    \/ TsAuthResponse(p) /\ ConcBounded(p)'
    \/ TsPostQuerySubmitRequest(p) /\ ConcBounded(p)'
    \/ TsSubmitResponse(p) /\ ConcBounded(p)'
    \/ TsPollLoop(p) /\ ConcBounded(p)'
    \/ TsSleep(p) /\ ConcBounded(p)'
    \/ TsGetRequestStatus(p) /\ ConcBounded(p)'
    \/ TsStatusResponse(p) /\ ConcBounded(p)'
    \/ TsGetResults(p) /\ ConcBounded(p)'
    \/ TsResultsResponse(p) /\ ConcBounded(p)'

NextConc == \E p \in Procs : ConcStep(p)

SpecConc == Init /\ [][NextConc]_vars

\* --------------------------- the same workflow run twice, one after the other
\* the i-th request of invocation p and everything before it
RequestsUpTo(p, i) == SubSeq(SelectSeq(log[p], LAMBDA e : e.op \in
    {"auth", "state_getStorage", "prove"}), 1, i)

\* the backend is unchanged between the runs: a request that repeats the
\* first run's request gets the first run's answer, and the key derivation,
\* the planner and the verifier, given the first run's arguments, answer as
\* they did
SameBackend ==
    /\ \A i \in DOMAIN replies[2] :
          (i <= Len(replies[1]) /\ RequestsUpTo(2, i) = RequestsUpTo(1, i)) =>
              replies[2][i] = replies[1][i]
    /\ (Len(replies[2]) >= 2 /\ replies[2][2] = replies[1][2]) =>
          locals[2].commitmentResult = locals[1].commitmentResult
    /\ (args[2].table = args[1].table /\ outcome[1].err # "StorageKeyError") =>
          outcome[2].err # "StorageKeyError"
    /\ (planned[2].called /\ locals[2].commitment = locals[1].commitment) =>
          planned[2] = planned[1]
    /\ (verified[2].called /\ verified[2].response = verified[1].response
                           /\ verified[2].plan = verified[1].plan
                           /\ verified[2].commitments = verified[1].commitments) =>
          verified[2].ok = verified[1].ok

\* the caller awaits the first queryAndVerify and, when it has returned,
\* calls it again with the same arguments
SecondAfterFirst ==
    /\ \A p \in Procs : args[p].flow \in SyncFlows \cup {"-"}
    /\ pc[2] # "idle" => (outcome[1].kind = "returned" /\ args[2] = args[1])

Sequential == SecondAfterFirst /\ SameBackend

SeqStep(p) ==
    \/ Start(p) /\ Sequential'
    \/ CommitmentStorageKey(p) /\ Sequential'
    \/ GetAccessToken(p) /\ Sequential'
    \/ AuthResponse(p) /\ Sequential'
    \/ GetCommitment(p) /\ Sequential'
    \/ CommitmentResponse(p) /\ Sequential'
    \/ Plan(p) /\ Sequential'
    \/ GetProof(p) /\ Sequential'
    \/ ProofResponse(p) /\ Sequential'
    \/ Verify(p) /\ Sequential'
    \/ TimerFires(p) /\ Sequential'

NextSeq == \E p \in Procs : SeqStep(p)

SpecSeq == Init /\ [][NextSeq]_vars

\* ------------------------------------------ wasm heap and wrapper calls
Heap == HeapState(heap, heap_next, stored, <<>>)

\* the heap after the calls that led to hs
HeapBecomes(hs) ==
    /\ heap' = hs.heap
    /\ heap_next' = hs.heap_next
    /\ stored' = hs.stored
    /\ heap_calls' = hs.calls

\* the indices the calls of hs handed out, in order
Handed(hs) ==
    LET adds == SelectSeq(hs.calls, LAMBDA c : c.op = "add")
    IN  [i \in DOMAIN adds |-> adds[i].idx]

\* slots whose object the wasm side may hand back: those it was given or
\* cloned itself, and the four constants undefined, null, true, false
Takeable == {e.idx : e \in stored} \cup (HeapFill..(HeapReserved - 1))

\* __wbindgen_object_clone_ref(arg0): addHeapObject(getObject(arg0)); also
\* __wbindgen_string_new and JSON.parse, which add a fresh value
ImportAddsObject ==
    /\ wcall.at \in {"idle", "wasm"}
    /\ Cardinality(stored) < MaxHeapGrowth
    /\ \E obj \in ImportObjects : HeapBecomes(addHeapObject(Heap, obj))
    /\ UNCHANGED <<workflowVars, sp, wcall>>

\* __wbindgen_object_drop_ref(arg0): takeObject(arg0), for a slot that
\* holds an object the wasm side owns
ImportTakesObject ==
    /\ wcall.at \in {"idle", "wasm"}
    /\ \E idx \in Takeable \ {wcall.passed[i] : i \in DOMAIN wcall.passed} :
          HeapBecomes(takeObject(Heap, idx))
    /\ UNCHANGED <<workflowVars, sp, wcall>>

\* try { const retptr = wasm.__wbindgen_add_to_stack_pointer(-16);
WrapperEnter ==
    /\ wcall.at = "idle"
    /\ \E fn \in Wrappers : wcall' = [NoCall EXCEPT !.fn = fn, !.at = "marshal"]
    /\ sp' = sp - StackFrame
    /\ heap_calls' = <<>>
    /\ UNCHANGED <<workflowVars, heap, heap_next, stored>>

\* passStringToWasm0 / passArrayJsValueToWasm0 / addHeapObject(...) of the
\* arguments; the first pass* call throws, before any object is added,
\* when its argument has no length
WrapperMarshal ==
    /\ wcall.at = "marshal"
    /\ \/ LET hs == addAll(Heap, Marshalled(wcall.fn))
          IN  /\ HeapBecomes(hs)
              /\ wcall' = [wcall EXCEPT !.at = "wasm", !.passed = Handed(hs)]
       \/ /\ wcall' = [wcall EXCEPT !.at = "finally", !.exit = "threw"]
          /\ heap_calls' = <<>>
          /\ UNCHANGED <<heap, heap_next, stored>>
    /\ UNCHANGED <<workflowVars, sp>>

\* wasm.<fn>(retptr, ...): the wasm side takes the objects it was passed
\* and writes its answer at retptr: an error object (r2 / r3 set), or the
\* result, which for verify is an object on the heap
WrapperWasmCall ==
    /\ wcall.at = "wasm"
    /\ LET taken == takeAll(Heap, wcall.passed)
       IN  \/ LET hs == addHeapObject(taken, "error")
              IN  /\ HeapBecomes(hs)
                  /\ wcall' = [wcall EXCEPT !.at = "result", !.passed = <<>>,
                                            !.failed = TRUE, !.r = Handed(hs)[1]]
           \/ /\ wcall.fn = "verify_prover_response_dory"
              /\ LET hs == addHeapObject(taken, "result")
                 IN  /\ HeapBecomes(hs)
                     /\ wcall' = [wcall EXCEPT !.at = "result", !.passed = <<>>,
                                               !.r = Handed(hs)[1]]
           \/ /\ wcall.fn # "verify_prover_response_dory"
              /\ HeapBecomes(taken)
              /\ wcall' = [wcall EXCEPT !.at = "result", !.passed = <<>>]
    /\ UNCHANGED <<workflowVars, sp>>

\* WrapperResult with the throw leaving the wrapper at once, as without
\* try/finally: the finally step is skipped on the error exit (C30 must
\* notice)
WrapperResultThrowSkipsFinally ==
    /\ wcall.at = "result"
    /\ IF wcall.failed
       THEN /\ HeapBecomes(takeObject(Heap, wcall.r))
            /\ wcall' = [NoCall EXCEPT !.exit = "threw"]
       ELSE /\ IF wcall.fn = "verify_prover_response_dory"
               THEN HeapBecomes(takeObject(Heap, wcall.r))
               ELSE heap_calls' = <<>> /\ UNCHANGED <<heap, heap_next, stored>>
            /\ wcall' = [wcall EXCEPT !.at = "finally", !.exit = "returned"]
    /\ UNCHANGED <<workflowVars, sp>>

\* if (r2) { throw takeObject(r1); } return takeObject(r0);  (verify)
\* if (r2) { throw takeObject(r1); } return ...__wrap(r0);   (plan)
\* if (r3) { throw takeObject(r2); } return getStringFromWasm0(...)  (key)
WrapperResult ==
    /\ wcall.at = "result"
    /\ IF wcall.failed
       THEN /\ HeapBecomes(takeObject(Heap, wcall.r))
            /\ wcall' = [wcall EXCEPT !.at = "finally", !.exit = "threw"]
       ELSE /\ IF wcall.fn = "verify_prover_response_dory"
               THEN HeapBecomes(takeObject(Heap, wcall.r))
               ELSE heap_calls' = <<>> /\ UNCHANGED <<heap, heap_next, stored>>
            /\ wcall' = [wcall EXCEPT !.at = "finally", !.exit = "returned"]
    /\ UNCHANGED <<workflowVars, sp>>

\* } finally { wasm.__wbindgen_add_to_stack_pointer(16); }
WrapperFinally ==
    /\ wcall.at = "finally"
    /\ sp' = sp + StackFrame
    /\ wcall' = [NoCall EXCEPT !.exit = wcall.exit]
    /\ heap_calls' = <<>>
    /\ UNCHANGED <<workflowVars, heap, heap_next, stored>>

NextWasm ==
    \/ ImportAddsObject
    \/ ImportTakesObject
    \/ WrapperEnter
    \/ WrapperMarshal
    \/ WrapperWasmCall
    \/ WrapperResult
    \/ WrapperFinally

SpecWasm == Init /\ [][NextWasm]_vars

\* ------------------------------------------------- reading the history
NetworkOps ==
    {"auth", "state_getStorage", "prove", "attestation_v1_attestationsForBlock",
     "attestation_v1_bestRecentAttestations", "submit", "status", "results"}

\* the requests invocation p has issued, in order
Requests(p) == SelectSeq(log[p], LAMBDA e : e.op \in NetworkOps)

\* how many log entries of invocation p have operation op
Count(p, op) == Cardinality({i \in DOMAIN log[p] : log[p][i].op = op})

\* the operations of the log, in order, the wasm key derivation left out
Steps(p) ==
    LET kept == SelectSeq(log[p], LAMBDA e : e.op # "storage_key")
    IN  [i \in DOMAIN kept |-> kept[i].op]

\* some request to op was settled the way http says
HasReply(p, op, http) ==
    \E i \in DOMAIN replies[p] : replies[p][i].op = op /\ replies[p][i].http = http

\* the abort timer fired while a request of p was in flight
HasAborted(p) == \E i \in DOMAIN replies[p] : replies[p][i].http = "abort"

\* how many of the statuses read so far were not terminal (only the last
\* one read can be terminal: the loop ends on it)
NonTerminalReads(p) ==
    IF polled[p].n > 0 /\ IsTerminal(polled[p].last)
    THEN polled[p].n - 1
    ELSE polled[p].n

\* the values the answers to p's requests of operation op carried
ReplyValues(p, op) ==
    {replies[p][i].value : i \in {j \in DOMAIN replies[p] : replies[p][j].op = op}}

\* requests issued and not yet settled
Outstanding(p) == Len(Requests(p)) - (Len(replies[p]) + polled[p].n)

Terminated(p) == pc[p] \in {"done", "failed"}

\* the polling loop has been left through its exit
PollingOver(p) == pc[p] \in {"result", "resultWait", "verify", "done"}

\* ---------------------------------------------------------------- C1
\* C1: whenever an entry point returns a value, that value is the result
\* of a successful verify call of the same invocation on the prover's
\* response.  Stated for all four entry points, as the claim does.
C1_ReturnedIsVerified ==
    \A p \in Procs :
        outcome[p].kind = "returned" =>
            /\ verified[p].called
            /\ verified[p].ok
            /\ verified[p].response = locals[p].proverResponse
            /\ outcome[p].value = verified[p].result

\* ---------------------------------------------------------------- C2
\* C2: in SxTClient.queryAndVerify a verify call that raised ends the
\* workflow in Failed with the verifier's error: nothing is returned, no
\* default value is substituted, and verify was called exactly once.
C2_VerifyErrorFails ==
    \A p \in Procs :
        (args[p].flow \in SxTFlows /\ verified[p].called /\ ~verified[p].ok) =>
            /\ pc[p] = "failed"
            /\ outcome[p] = [kind |-> "failed", value |-> <<>>, err |-> "VerifyError"]
            /\ Count(p, "verify") = 1

C2_Witness ==
    \E p \in Procs :
        /\ args[p].flow = "chainlink"
        /\ verified[p].called /\ ~verified[p].ok
        /\ pc[p] = "failed"

\* ---------------------------------------------------------------- C3
\* C3: in the synchronous flow the plan and the commitments given to
\* verify are the ones the plan call of this invocation returned (not the
\* list built from the RPC result), and the frame holds them unchanged
\* from the plan call to the verify call.
C3_VerifyGetsPlannedContext ==
    \A p \in Procs :
        args[p].flow \in SyncFlows =>
            /\ pc[p] \in {"proof", "proofWait", "verify"} =>
                /\ planned[p].ok
                /\ locals[p].queryExpr = planned[p].queryExpr
                /\ locals[p].commitments = planned[p].commitments
            /\ verified[p].called =>
                /\ planned[p].ok
                /\ verified[p].plan = planned[p].queryExpr
                /\ verified[p].commitments = planned[p].commitments

C3_Witness ==
    \E p \in Procs :
        /\ args[p].flow = "chainlink"
        /\ verified[p].called
        /\ planned[p].commitments #
              <<TableRefAndCommitment(args[p].table, locals[p].commitment)>>

\* ---------------------------------------------------------------- C4
\* C4: with an empty API key the workflow fails with the missing
\* credential error and no request at all has been issued.
C4_MissingKeyNoRequest ==
    \A p \in Procs :
        (args[p].apiKey = "" /\ pc[p] # "idle") =>
            /\ Len(Requests(p)) = 0
            /\ Terminated(p) =>
                  outcome[p] = [kind |-> "failed", value |-> <<>>,
                                err |-> "API Key Not Found"]

\* ---------------------------------------------------------------- C5
\* C5: in every entry point a non-success status from the auth endpoint
\* fails the workflow with the auth error, after exactly one auth request
\* and without any later request.
C5_AuthRejectedStops ==
    \A p \in Procs :
        HasReply(p, "auth", "bad") =>
            /\ pc[p] = "failed"
            /\ outcome[p].err = "Error querying auth endpoint"
            /\ Count(p, "auth") = 1
            /\ Len(Requests(p)) = 1

\* ---------------------------------------------------------------- C6
\* C6: a successful synchronous queryAndVerify has made exactly one auth
\* request, one commitment state read, one plan call, one prover request
\* and one verify call, in that order; and at no point of a synchronous
\* run is a step started while a request is still unsettled (at most one
\* request is outstanding, and it is the last thing the log holds).
C6_SyncStepOrder ==
    \A p \in Procs :
        args[p].flow \in SyncFlows =>
            /\ outcome[p].kind = "returned" =>
                  Steps(p) = <<"auth", "state_getStorage", "plan", "prove", "verify">>
            /\ Outstanding(p) \in {0, 1}
            /\ Outstanding(p) = 1 => log[p][Len(log[p])].op \in NetworkOps

C6_Witness ==
    \E p \in Procs :
        /\ args[p].flow = "chainlink"
        /\ outcome[p].kind = "returned"
        /\ Len(log[p]) = 5

\* ---------------------------------------------------------------- C7
\* C7: in the synchronous flow a non-success commitment RPC, a planning
\* error or a non-success prover response ends the workflow in Failed;
\* the failed step was made once and no later step was executed; after a
\* non-success prover response verify is never called.
C7_SyncFailureAborts ==
    \A p \in Procs :
        args[p].flow \in SyncFlows =>
            /\ HasReply(p, "state_getStorage", "bad") =>
                /\ pc[p] = "failed" /\ outcome[p].kind = "failed"
                /\ Steps(p) = <<"auth", "state_getStorage">>
            /\ (planned[p].called /\ ~planned[p].ok) =>
                /\ pc[p] = "failed" /\ outcome[p].kind = "failed"
                /\ Steps(p) = <<"auth", "state_getStorage", "plan">>
            /\ HasReply(p, "prove", "bad") =>
                /\ pc[p] = "failed" /\ outcome[p].kind = "failed"
                /\ Steps(p) = <<"auth", "state_getStorage", "plan", "prove">>
                /\ ~verified[p].called

C7_Witness ==
    \E p \in Procs :
        /\ args[p].flow = "chainlink"
        /\ HasReply(p, "prove", "bad")
        /\ pc[p] = "failed"

\* ---------------------------------------------------------------- C8
\* C8: in the asynchronous flow, when polling ended on the status
\* `failed` or `canceled`, the workflow fails with ProofJobFailed /
\* ProofJobCanceled and the result endpoint has received no request.
C8_FailedJobSkipsResult ==
    \A p \in Procs :
        (args[p].flow \in AsyncFlows /\ polled[p].last \in {"failed", "canceled"}) =>
            /\ Count(p, "results") = 0
            /\ ~PollingOver(p)
            /\ Terminated(p) =>
                  outcome[p].err = IF polled[p].last = "failed"
                                   THEN "ProofJobFailed" ELSE "ProofJobCanceled"

\* ---------------------------------------------------------------- C9
\* the loop was left because count reached 60 while no status read was
\* terminal (every status request was answered with a readable body)
BudgetExhausted(p) ==
    /\ args[p].flow \in AsyncFlows
    /\ locals[p].count = MaxAttempts
    /\ ~locals[p].success
    /\ polled[p].n = Count(p, "status")
    /\ pc[p] \notin {"loop", "sleep", "status"}

\* C9: in the asynchronous flow, when the attempt budget is used up and
\* no terminal status was observed, the workflow fails with
\* PollingTimedOut: it does not fetch the result and returns no value.
C9_TimeoutFails ==
    \A p \in Procs :
        BudgetExhausted(p) =>
            /\ pc[p] = "failed"
            /\ outcome[p].err = "PollingTimedOut"
            /\ Count(p, "results") = 0
            /\ outcome[p].kind # "returned"

\* --------------------------------------------------------------- C10
\* C10: in the asynchronous flow, when the status endpoint has answered
\* `pending` k times (k < 60) and then `done`, exactly k+1 status requests
\* have been issued, none follows, and the workflow goes on to fetch the
\* result; and polling is not given up while fewer than 60 statuses, none
\* of them terminal, have been read.
C10_PollsUntilDone ==
    \A p \in Procs :
        args[p].flow \in AsyncFlows =>
            /\ (polled[p].pendingOnly /\ polled[p].last = "done" /\ polled[p].n - 1 < MaxAttempts) =>
                /\ Count(p, "status") = polled[p].n
                /\ pc[p] \in {"loop", "result", "resultWait", "verify", "done", "failed"}
                /\ pc[p] \notin {"loop", "result"} => Count(p, "results") = 1
            /\ (PollingOver(p) /\ ~IsTerminal(polled[p].last)) => polled[p].n >= MaxAttempts

C10_Witness ==
    \E p \in Procs :
        /\ args[p].flow = "ts"
        /\ polled[p].pendingOnly /\ polled[p].last = "done" /\ polled[p].n = 60
        /\ Count(p, "status") = 60
        /\ Count(p, "results") = 1

\* --------------------------------------------------------------- C11
\* C11: in the asynchronous flow no invocation issues more than 60 status
\* requests, and when no status read was terminal polling has stopped
\* after exactly 60 of them.
C11_AtMost60StatusRequests ==
    \A p \in Procs :
        args[p].flow \in AsyncFlows =>
            /\ Count(p, "status") <= MaxAttempts
            /\ BudgetExhausted(p) => Count(p, "status") = MaxAttempts

\* --------------------------------------------------------------- C12
\* C12: under the event loop's fairness (every request and every sleep is
\* eventually settled) an invocation that is in its polling phase
\* eventually reaches a terminal outcome, whatever statuses are returned.
C12_PollingTerminates ==
    \A p \in Procs :
        (pc[p] \in {"status", "statusWait", "loop", "sleep"}) ~> Terminated(p)

C12_Witness ==
    \E p \in Procs :
        /\ args[p].flow \in AsyncFlows
        /\ polled[p].n >= MaxAttempts
        /\ ~IsTerminal(polled[p].last)
        /\ Terminated(p)

\* --------------------------------------------------------------- C13
\* everything invocation p holds
Own(p) ==
    <<pc[p], args[p], locals[p], timer[p], log[p], planned[p], verified[p],
      replies[p], polled[p], outcome[p], cancel[p]>>

\* the arguments and the answers invocation p was given (the storage value
\* as its frame holds it), which decide its run
Given(p) ==
    <<args[p], replies[p], locals[p].commitmentResult, polled[p], planned[p],
      verified[p]>>

\* every bearer token, job id, commitment list and prover query that p
\* sent is one that p itself obtained
CarriesOwnData(p) ==
    \A i \in DOMAIN log[p] :
        LET e == log[p][i]
        IN  /\ e.token # "-" =>
                \E j \in DOMAIN replies[p] :
                    replies[p][j].op = "auth" /\ replies[p][j].value = e.token
            /\ e.op \in {"status", "results"} =>
                \E j \in DOMAIN replies[p] :
                    replies[p][j].op = "submit" /\ replies[p][j].value = e.arg
            /\ e.op = "plan" =>
                e.cms = <<TableRefAndCommitment(args[p].table, locals[p].commitment)>>
            /\ e.op = "prove" => (planned[p].ok => e.arg = planned[p].proverQuery)

\* C13: with two invocations interleaved at their await points, a step of
\* one changes nothing the other holds, every request carries only data
\* its own invocation obtained, and two invocations given the same
\* arguments and answers end with the same requests and the same outcome.
C13_ConcurrentIndependent ==
    /\ [](\A p \in Procs : CarriesOwnData(p))
    /\ [](\A p, q \in Procs :
            (Terminated(p) /\ Terminated(q) /\ Given(p) = Given(q)) =>
                (outcome[p] = outcome[q] /\ log[p] = log[q]))
    /\ [][\A p, q \in Procs : (p # q /\ Own(p)' # Own(p)) => Own(q)' = Own(q)]_vars

C13_Witness ==
    /\ pc[1] \in WaitPcs /\ pc[2] \in WaitPcs
    /\ Len(replies[1]) >= 2 /\ Len(replies[2]) >= 2
    /\ locals[1].accessToken \in Tokens /\ locals[2].accessToken \in Tokens
    /\ locals[1].accessToken # locals[2].accessToken
    /\ args[1].flow # args[2].flow

\* --------------------------------------------------------------- C14
\* C14: when queryAndVerify has returned and is run again with the same
\* arguments against the unchanged backend, the second run returns a value
\* equal to the first, and each run has sent its own auth request and its
\* own state_getStorage request: two of each after the two runs.
C14_SecondRunEqualAndRefetches ==
    (outcome[1].kind = "returned" /\ Terminated(2)) =>
        /\ outcome[2] = outcome[1]
        /\ Count(1, "auth") + Count(2, "auth") = 2
        /\ Count(1, "state_getStorage") + Count(2, "state_getStorage") = 2
        /\ Count(2, "auth") = 1 /\ Count(2, "state_getStorage") = 1

C14_Witness ==
    /\ args[1].flow = "chainlink"
    /\ outcome[1].kind = "returned"
    /\ outcome[2].kind = "returned"
    /\ Count(2, "auth") = 1

\* --------------------------------------------------------------- C15
\* C15: the attestation lookup of the hyper_kzg flow issues exactly one
\* request, chosen by the blockHash argument: a (truthy) hash H gives
\* attestation_v1_attestationsForBlock with params ["0x" + H], no hash
\* (null, or the empty string) gives attestation_v1_bestRecentAttestations
\* with null params; never both in one invocation.
C15_AttestationMethodByBlockHash ==
    \A p \in Procs :
        args[p].flow = "hyperkzg" =>
            LET forBlock == Count(p, "attestation_v1_attestationsForBlock")
                bestRecent == Count(p, "attestation_v1_bestRecentAttestations")
            IN  /\ forBlock + bestRecent <= 1
                /\ (locals[p].accessToken \in Tokens /\ pc[p] # "attestation") =>
                       forBlock + bestRecent = 1
                /\ IF Truthy(args[p].blockHash) THEN bestRecent = 0 ELSE forBlock = 0
                /\ \A i \in DOMAIN log[p] :
                     /\ log[p][i].op = "attestation_v1_attestationsForBlock" =>
                            log[p][i].arg = Prefix0x(args[p].blockHash)
                     /\ log[p][i].op = "attestation_v1_bestRecentAttestations" =>
                            log[p][i].arg = "null"

C15_Witness ==
    \E p \in Procs :
        /\ args[p].flow = "hyperkzg"
        /\ args[p].blockHash = "b1"
        /\ Count(p, "attestation_v1_attestationsForBlock") = 1
        /\ log[p][Len(log[p])].arg = "0xb1"
        /\ pc[p] = "attestationWait"

\* --------------------------------------------------------------- C16
\* C16: in the chainlink flow, once the abort timer has fired on a request
\* in flight, the workflow has failed with the abort error, the aborted
\* request is the last thing the invocation did (no plan, prover request
\* or verify follows it), and nothing is returned.
C16_AbortFailsWorkflow ==
    \A p \in Procs :
        HasAborted(p) =>
            /\ args[p].flow = "chainlink"
            /\ pc[p] = "failed"
            /\ outcome[p] = [kind |-> "failed", value |-> <<>>, err |-> "AbortError"]
            /\ replies[p][Len(replies[p])].http = "abort"
            /\ log[p][Len(log[p])].op = replies[p][Len(replies[p])].op
            /\ Len(Requests(p)) = Len(replies[p])
            /\ ~verified[p].called

C16_Witness ==
    \E p \in Procs :
        /\ HasAborted(p)
        /\ timer[p] = "fired"
        /\ log[p][Len(log[p])].op = "state_getStorage"
        /\ pc[p] = "failed"

\* --------------------------------------------------------------- C17
\* C17: once cancellation has been requested between two polling attempts
\* of an asynchronous invocation, that invocation issues no further status
\* request (and does not go on to return a value).
C17_CancelStopsPolling ==
    [][\A p \in Procs :
          cancel[p] =>
              /\ Count(p, "status")' = Count(p, "status")
              /\ (outcome[p].kind = "none" => outcome'[p].kind # "returned")]_vars

\* --------------------------------------------------------------- C18
\* C18: in the asynchronous flows every sleep follows a status read that
\* was not terminal: the sleeps never outnumber the non-terminal statuses
\* read so far, so none precedes the first status request and a job whose
\* first status is terminal causes none.
C18_SleepOnlyAfterNonTerminal ==
    \A p \in Procs :
        args[p].flow \in AsyncFlows =>
            /\ Count(p, "sleep") <= NonTerminalReads(p)
            /\ Count(p, "status") = 0 => Count(p, "sleep") = 0

\* --------------------------------------------------------------- C19
\* C19: throughout the polling phase of an asynchronous invocation the
\* attempt counter equals the number of status requests issued so far
\* (taken when the counter has been advanced for the request about to be
\* sent, or the request is out), and it never exceeds 60.
C19_CounterCountsEveryCheck ==
    \A p \in Procs :
        args[p].flow \in AsyncFlows =>
            /\ locals[p].count <= MaxAttempts
            /\ pc[p] \in {"statusWait", "loop"} => locals[p].count = Count(p, "status")

\* --------------------------------------------------------------- C20
\* C20: in the asynchronous flows a non-success HTTP response to the job
\* submission, to a status request or to the result request fails the
\* workflow at that request: it is the last request of the invocation and
\* nothing is returned.
C20_AsyncRejectionAborts ==
    \A p \in Procs :
        \A i \in DOMAIN replies[p] :
            (/\ args[p].flow \in AsyncFlows
             /\ replies[p][i].op \in {"submit", "status", "results"}
             /\ replies[p][i].http = "bad") =>
                /\ i = Len(replies[p])
                /\ pc[p] = "failed"
                /\ outcome[p].kind = "failed"
                /\ Outstanding(p) = 0
                /\ log[p][Len(log[p])].op = replies[p][i].op

\* --------------------------------------------------------------- C21
\* C21: in an asynchronous invocation the block hash of the submission
\* body is the one its attestation answer carried, every status and
\* result request names the queryId its submission answer carried, and
\* every submit/status/result request bears the token its auth answer
\* carried; each of the three has one value for the whole invocation.
C21_AsyncDataThreaded ==
    \A p \in Procs :
        args[p].flow \in AsyncFlows =>
            /\ Cardinality(ReplyValues(p, "auth")) <= 1
            /\ Cardinality(ReplyValues(p, "attestation")) <= 1
            /\ Cardinality(ReplyValues(p, "submit")) <= 1
            /\ \A i \in DOMAIN log[p] :
                 LET e == log[p][i]
                 IN  /\ e.op \in {"submit", "status", "results"} =>
                            e.token \in ReplyValues(p, "auth")
                     /\ e.op \in {"status", "results"} =>
                            e.arg \in ReplyValues(p, "submit")
                     /\ (e.op = "submit" /\ args[p].flow = "hyperkzg") =>
                            e.arg \in ReplyValues(p, "attestation")

C21_Witness ==
    \E p \in Procs :
        /\ args[p].flow = "hyperkzg"
        /\ args[p].blockHash = "b1"
        /\ ReplyValues(p, "attestation") = {"h2"}
        /\ ReplyValues(p, "submit") = {"q2"}
        /\ Count(p, "status") >= 2
        /\ Count(p, "results") = 1
        /\ outcome[p].kind = "returned"

\* --------------------------------------------------------------- C22
\* C22: in the synchronous flows the prover request carries, as its body,
\* exactly the prover query the plan call returned, with the bearer token
\* the auth answer carried, and the response given to verify is exactly
\* the body the prover answered with.
C22_PayloadsPassedUnchanged ==
    \A p \in Procs :
        args[p].flow \in SyncFlows =>
            \A i \in DOMAIN log[p] :
                LET e == log[p][i]
                IN  /\ e.op = "prove" =>
                        /\ planned[p].ok
                        /\ Body(e.arg) = [present |-> TRUE, json |-> planned[p].proverQuery]
                        /\ \E j \in DOMAIN replies[p] :
                               replies[p][j] = Reply("auth", "ok", e.token)
                    /\ e.op = "verify" =>
                        \E j \in DOMAIN replies[p] :
                            replies[p][j] = Reply("prove", "ok", e.arg)

C22_Witness ==
    \E p \in Procs :
        /\ args[p].flow = "chainlink"
        /\ planned[p].proverQuery = "pq2"
        /\ HasReply(p, "prove", "ok")
        /\ verified[p].called
        /\ verified[p].response = "resp2"

\* --------------------------------------------------------------- C23
\* C23: when the attestation RPC answers successfully with an empty result
\* (null, or one without attestationsFor), the hyper_kzg workflow fails
\* there: no submission, status or result request is sent.
C23_EmptyAttestationFails ==
    \A p \in Procs :
        (/\ args[p].flow = "hyperkzg"
         /\ \E i \in DOMAIN replies[p] :
               /\ replies[p][i].op = "attestation"
               /\ replies[p][i].http = "ok"
               /\ replies[p][i].value \in {"null", Undefined}) =>
            /\ pc[p] = "failed"
            /\ Count(p, "submit") = 0
            /\ Count(p, "status") = 0
            /\ Count(p, "results") = 0

C25_CommitmentIsResultWithoutPrefix ==
    LET StripPrefix(s) ==
            IF Len(s) >= 2 /\ s[1] = "0" /\ s[2] = "x" THEN SubSeq(s, 3, Len(s)) ELSE s
    IN
    \A p \in Procs :
        \A i \in DOMAIN log[p] :
            (args[p].flow \in SyncFlows /\ log[p][i].op = "plan") =>
                log[p][i].cms =
                    <<TableRefAndCommitment(args[p].table,
                                            StripPrefix(locals[p].commitmentResult))>>

\* --------------------------------------------------------------- C26
\* C26: when the commitments the plan call returned differ from the ones
\* passed into it, the synchronous workflow fails there: no prover request
\* is sent and verify is not called.
C26_CommitmentMismatchFails ==
    \A p \in Procs :
        (/\ args[p].flow \in SyncFlows
         /\ planned[p].ok
         /\ \E i \in DOMAIN log[p] :
               log[p][i].op = "plan" /\ log[p][i].cms # planned[p].commitments) =>
            /\ pc[p] = "failed"
            /\ Count(p, "prove") = 0
            /\ Count(p, "verify") = 0

\* --------------------------------------------------------------- C27
\* C27: in the synchronous flows the storage key of the state_getStorage
\* request is the key derived from the table that is paired with the
\* fetched commitment for planning.
C27_KeyDerivedFromPlannedTable ==
    \A p \in Procs :
        \A i \in DOMAIN log[p] :
            (args[p].flow \in SyncFlows /\ log[p][i].op = "state_getStorage") =>
                log[p][i].arg = Prefix0x(StorageKey(args[p].table))

\* --------------------------------------------------------------- C28
\* C28: an abort timer of the chainlink postHttpRequest is pending only
\* while its request is in flight: once the call has returned or thrown
\* the timer is no longer armed, and it never fires on a settled request.
C28_TimerClearedWhenSettled ==
    \A p \in Procs :
        /\ timer[p] = "armed" => pc[p] \in WaitPcs
        /\ timer[p] = "fired" => HasAborted(p)

\* --------------------------------------------------------------- C29
\* C29: with takeObject applied only to slots that hold an object,
\* addHeapObject never returns an index below 132 or one that holds a live
\* object, takeObject(i) returns the object stored by the addHeapObject
\* call that returned i, and the slots below 132 keep their values and
\* are never on the free list.
C29_HeapDiscipline ==
    /\ \A i \in DOMAIN heap_calls :
         LET c == heap_calls[i]
         IN  /\ c.op = "add" => (c.idx >= HeapReserved /\ ~c.live)
             /\ c.op = "take" => c.obj = c.expected
    /\ \A i \in 1..HeapReserved : heap[i] = InitialHeap[i]
    /\ heap_next >= HeapReserved
    /\ \A i \in DOMAIN heap : heap[i].kind = "free" => heap[i].next >= HeapReserved
    /\ \A e \in stored : heap[e.idx + 1] = Value(e.obj)

C29_Witness ==
    /\ Len(heap) > HeapReserved + 1
    /\ heap_next < Len(heap)
    /\ \E i \in DOMAIN heap_calls :
         /\ heap_calls[i].op = "take"
         /\ heap_calls[i].idx >= HeapReserved
         /\ heap_calls[i].obj = "o2"
    /\ \E e \in stored : e.idx > HeapReserved

\* --------------------------------------------------------------- C30
\* C30: every exported wrapper holds exactly its 16 bytes of wasm stack
\* while it runs and has released them when it is left, by return or by
\* throw: between wrapper calls the stack pointer is where it started.
C30_StackPointerRestored ==
    /\ wcall.at = "idle" => sp = 0
    /\ wcall.at # "idle" => sp = -StackFrame

C30_Witness ==
    /\ wcall.at = "idle"
    /\ wcall.exit = "threw"
    /\ sp = 0
    /\ stored # {}

====
